---- MODULE Spec2Model ----
(***************************************************************************)
(* Token lifecycle of the Outlook add-in: the SSO service (ssoService),    *)
(* the SSO TokenManager (tokenManagerService), the AzureTokenManager       *)
(* (azureTokenService) and the useSSO hook that drives the SSO side.       *)
(*                                                                         *)
(* Time is Date.now() in milliseconds.  JavaScript runs one macrotask at a *)
(* time and drains every promise continuation before the next one, so one  *)
(* action is one macrotask: a call from outside, a timer callback, or the  *)
(* settlement of a network call together with every continuation awaiting  *)
(* it.  Office.js is ready (isOfficeInitialized() holds) throughout.       *)
(*                                                                         *)
(* The two managers are independent singletons without shared state; a     *)
(* behaviour follows one of them, chosen by identitySource in Init.        *)
(*                                                                         *)
(* A token is identified by its expiry (and, for the Azure cache, the time *)
(* it was acquired); the token string itself is not modelled.              *)
(***************************************************************************)
EXTENDS Integers, FiniteSets, Sequences, Bags, TLC

\* ---------------------------------------------------------------- bounds
MaxTicks == 2           \* clock observations after time 0
MaxInFlight == 2        \* identity-source calls in flight at once
MaxExpiresIn == 420     \* longest token lifetime, seconds
MaxRetryTimers == 1     \* cooldown timers pending or owed at once
MaxRetriesArg == 4      \* largest maxRetries a caller of negotiate() passes
MaxConnections == 2     \* HubConnection objects built in one run
MaxSignalRCalls == 2    \* initializeSignalR()/stopSignalR() calls in flight at once
MaxNegotiations == 3    \* negotiate() calls signalrService makes in one run
MaxMounts == 2          \* useSignalR instances mounted one after another
MaxArgs == 3            \* arguments of one hub method invocation

\* ------------------------------------------------------ program constants
REFRESH_THRESHOLD_MS == 5 * 60 * 1000
RETRY_COOLDOWN_MS == 60000
FALLBACK_VALIDITY_MS == 60 * 60 * 1000
TickMs == RETRY_COOLDOWN_MS

Max(a, b) == IF a >= b THEN a ELSE b

\* token lifetimes an identity source hands out, in seconds: one that is due
\* for renewal the moment it is issued, one that is valid for a while
ExpiresIn == {REFRESH_THRESHOLD_MS \div 1000, MaxExpiresIn}

\* SSOConfig as passed by callers: a prompt field is "unset", "true" or "false"
SSOConfigs ==
    { [allowSignInPrompt |-> "unset", allowConsentPrompt |-> "unset"],
      [allowSignInPrompt |-> "true",  allowConsentPrompt |-> "true"],
      [allowSignInPrompt |-> "false", allowConsentPrompt |-> "false"] }
EmptyConfig == [allowSignInPrompt |-> "unset", allowConsentPrompt |-> "unset"]

\* AzureAdConfig: all four fields present, or one of them missing
AzureConfigs == {"valid", "missingField"}

NoToken == [expiresAt |-> 0]
NoAzureToken == [expiresAt |-> 0, acquiredAt |-> 0]
\* refreshPromise is null or the promise of the call in flight marked shared
NoPromise == "null"
SharedPromise == "promise"
\* refreshTimer is the pending timeout, if any: a handle that has fired or
\* was cleared is as good as null (clearTimeout on it does nothing)
\* config is the AzureAdConfig the callback captured ("none" for the SSO
\* manager, whose callback takes none)
NoTimer == [state |-> "null", due |-> 0, config |-> "none"]

VARIABLES
    identitySource,     \* "delegated" (ssoService + TokenManager) or "clientCredentials"
    now,                \* Date.now()
    isInitialized,      \* ssoService: let isInitialized
    ssoState,           \* ssoService: let ssoState (isAuthenticated, token)
    tokenManager,       \* TokenManager: refreshPromise, refreshTimer
    azureTokenManager,  \* AzureTokenManager: cachedToken, refreshPromise, refreshTimer, currentConfig
    pending,            \* identity-source calls in flight, with the getToken calls awaiting each
    retryTimers,        \* bag of the untracked 60 s setTimeout(scheduleNextRefresh): due time, config
    lastCall,           \* what the latest step was: an operation and its answer, or a settlement
    timerFailed,        \* a timer-initiated acquisition failed and none succeeded since
    undisturbed,        \* no forceRefresh()/clear() since the calls in flight began
    negotiateCall,      \* negotiateService: one negotiate() call, its locals and its outcome
    hubConfig,          \* the SignalRConfig the callers of initializeSignalR pass
    signalr,            \* signalrService: isInitialized, connection, currentConfig, currentConnectionInfo, isUsingNegotiateFlow
    hub,                \* the HubConnection objects built so far, by number
    inits,              \* initializeSignalR() calls in flight: what each awaits
    stops,              \* stopSignalR() calls in flight: the connection whose stop() each awaits
    negotiations,       \* how many negotiate() calls signalrService has made
    useSignalR,         \* the useSignalR hook: the instance mounted now or next, and its isMounted
    received,           \* the arguments the server invokes the hub method with
    normalizedMessage,  \* what messageHandler last passed to setState as lastMessage
    lastSignalR         \* the latest signalrService step as the claims see it

\* the token side and the realtime (negotiate) side
tokenVars == << identitySource, now, isInitialized, ssoState, tokenManager,
                azureTokenManager, pending, retryTimers, lastCall, timerFailed,
                undisturbed >>
negotiateVars == << negotiateCall >>
messageVars == << received, normalizedMessage >>
signalrVars == << hubConfig, signalr, hub, inits, stops, negotiations, useSignalR,
                  messageVars, lastSignalR >>
realtimeVars == << negotiateVars, signalrVars >>
vars == << tokenVars, realtimeVars >>

\* ------------------------------------------------------------ ssoService
\* a token string as parseJWTToken sees it: the number of segments split('.')
\* gives, what atob and JSON.parse make of the second one ("json" when both
\* succeed), and the exp claim in seconds (0 when the payload has none)
Jwt(segments, payload, exp) ==
    [segments |-> segments, payload |-> payload, exp |-> exp]

\* a parseJWTToken whose failures yield no expiry instead of the fallback
parseJWTToken_NoFallback(jwt) == [expiresAt |-> jwt.exp * 1000]

\* parseJWTToken: every throw inside the try block ends in the catch block,
\* which returns a token that expires one hour from now
parseJWTToken(jwt) ==
    IF jwt.segments # 3 \/ jwt.payload # "json" \/ jwt.exp = 0
    THEN [expiresAt |-> now + FALLBACK_VALIDITY_MS]
    ELSE [expiresAt |-> jwt.exp * 1000]

isSSOAuthenticated(s) == s.isAuthenticated /\ s.token # NoToken

\* getCurrentToken(): the token, null (NoToken) when there is none
getCurrentToken(s) == s.token

isTokenValid(s) ==
    IF s.token = NoToken THEN FALSE
    ELSE s.token.expiresAt > now + 5 * 60 * 1000

\* getTimeUntilExpiry for a state that holds a token (null otherwise)
getTimeUntilExpiry(s) == Max(0, s.token.expiresAt - now)

\* the options refreshToken hands to OfficeRuntime.auth.getAccessToken
RefreshOptions(config) ==
    [allowSignInPrompt  |-> IF config.allowSignInPrompt = "unset" THEN FALSE
                            ELSE config.allowSignInPrompt = "true",
     allowConsentPrompt |-> IF config.allowConsentPrompt = "unset" THEN FALSE
                            ELSE config.allowConsentPrompt = "true"]

\* the options initializeSSO hands to OfficeRuntime.auth.getAccessToken
InitOptions(config) ==
    [allowSignInPrompt  |-> IF config.allowSignInPrompt = "unset" THEN TRUE
                            ELSE config.allowSignInPrompt = "true",
     allowConsentPrompt |-> IF config.allowConsentPrompt = "unset" THEN TRUE
                            ELSE config.allowConsentPrompt = "true"]

NoOptions == [allowSignInPrompt |-> FALSE, allowConsentPrompt |-> FALSE]

\* a call in flight: fn is the function awaiting the identity source, config
\* the AzureAdConfig it was started with (it passed validateConfig), by is
\* "manager" when a token manager's getToken started it, origin is "timer"
\* when that getToken was called by the refresh timer's callback.  Of the
\* getToken calls awaiting the call's promise only the timer callbacks are
\* counted:
\* they are the ones that act when it settles.  shared marks the call whose
\* promise the manager's refreshPromise holds.  superseded marks an
\* acquireToken call that was in flight when the AzureTokenManager's clear()
\* or forceRefresh() was called.
NewCall(fn, by, origin, opts) ==
    [fn |-> fn, by |-> by, origin |-> origin,
     config |-> IF fn = "acquireToken" THEN "valid" ELSE "none",
     allowSignInPrompt |-> opts.allowSignInPrompt,
     allowConsentPrompt |-> opts.allowConsentPrompt,
     timerWaiters |-> 0, shared |-> by = "manager", superseded |-> FALSE]

\* the calls in flight are a bag: two calls may agree in every field
InFlight(pend) == BagCardinality(pend)
Add(pend, c) == pend (+) SetToBag({c})
Remove(pend, c) == pend (-) SetToBag({c})

\* the manager's calls in flight, as a bag
ManagerCallsOf(pend) ==
    LET S == { c \in BagToSet(pend) : c.by = "manager" }
    IN [c \in S |-> pend[c]]
ManagerCalls == ManagerCallsOf(pending)

\* refreshPromise = null: no call in flight is the shared one any more
Unshare(pend) ==
    LET S == { c \in BagToSet(pend) : c.shared }
    IN IF S = {} THEN pend
       ELSE LET c == CHOOSE x \in S : TRUE
            IN Add(Remove(pend, c), [c EXCEPT !.shared = FALSE])

\* the AzureTokenManager's clear() and forceRefresh() set refreshPromise to
\* null while acquireToken calls are in flight: none is shared any more, and
\* each is an older acquisition from then on
RECURSIVE Supersede(_)
Supersede(pend) ==
    LET S == { c \in BagToSet(pend) : c.fn = "acquireToken" /\ ~c.superseded }
    IN IF S = {} THEN pend
       ELSE LET c == CHOOSE x \in S : TRUE
            IN Supersede(Add(Remove(pend, c),
                             [c EXCEPT !.shared = FALSE, !.superseded = TRUE]))

\* timer callbacks awaiting a call in flight
PendingTimerCallers ==
    LET n[S \in SUBSET BagToSet(pending)] ==
            IF S = {} THEN 0
            ELSE LET c == CHOOSE x \in S : TRUE
                 IN pending[c] * ((IF c.by = "manager" /\ c.origin = "timer"
                                   THEN 1 ELSE 0) + c.timerWaiters)
                    + n[S \ {c}]
    IN n[BagToSet(pending)]

\* room for one more timer callback: each may leave one cooldown timer
TimerRoom == PendingTimerCallers + BagCardinality(retryTimers) < MaxRetryTimers

\* the latest step as the claims see it
Observe(op, origin, kind) == [op |-> op, origin |-> origin, kind |-> kind]
NoCall == Observe("none", "none", "none")

\* setTimeout(() => this.scheduleNextRefresh(config), 60000)
RetryTimer(config) == [due |-> now + RETRY_COOLDOWN_MS, config |-> config]

\* cooldown timers set by the timer callbacks awaiting call c when it fails
CooldownsFor(c) ==
    LET n == (IF c.origin = "timer" THEN 1 ELSE 0) + c.timerWaiters
    IN [d \in (IF n = 0 THEN {} ELSE {RetryTimer(c.config)}) |-> n]

\* forceRefresh() and clear() disturb the calls in flight; a call that
\* starts while nothing is in flight begins undisturbed
UndisturbedAfter(r, op) ==
    IF op = "forceRefresh" THEN ManagerCallsOf(r.pending) = EmptyBag
    ELSE IF r.kind = "started" /\ ManagerCalls = EmptyBag THEN TRUE
    ELSE undisturbed

\* once nothing is in flight any more, nothing is disturbed
SettledUndisturbed(c) ==
    IF ManagerCallsOf(Remove(pending, c)) = EmptyBag THEN TRUE ELSE undisturbed

\* ---------------------------------------------------------- TokenManager
\* a manager that still trusts a token with exactly five minutes left
TM_isTokenStillValid_Inclusive(s) ==
    IF s.token = NoToken THEN FALSE
    ELSE getTimeUntilExpiry(s) >= REFRESH_THRESHOLD_MS

TM_isTokenStillValid(s) ==
    IF ~isTokenValid(s) THEN FALSE
    ELSE IF s.token = NoToken THEN FALSE
    ELSE getTimeUntilExpiry(s) > REFRESH_THRESHOLD_MS

\* scheduleNextRefresh up to and including setTimeout; the callback is
\* TM_refreshTimerFires
TM_scheduleNextRefresh(tm, s) ==
    IF s.token = NoToken
    THEN [tm EXCEPT !.refreshTimer = NoTimer]
    ELSE [tm EXCEPT !.refreshTimer =
             [state |-> "armed",
              due |-> now + Max(0, getTimeUntilExpiry(s) - REFRESH_THRESHOLD_MS),
              config |-> "none"]]

\* a timer callback that would ask for interactive prompts
TM_TimerConfig_Prompting ==
    [allowSignInPrompt |-> "true", allowConsentPrompt |-> "true"]

\* the config the timer callback passes: getToken() with the default {}
TM_TimerConfig == EmptyConfig

\* a getToken that never awaits a refresh in progress
TM_getToken_NoJoin(tm, pend, origin, config) ==
    IF ~isSSOAuthenticated(ssoState)
    THEN [tm |-> tm, pending |-> pend, kind |-> "notAuthenticated"]
    ELSE IF TM_isTokenStillValid(ssoState) /\ getCurrentToken(ssoState) # NoToken
    THEN [tm |-> tm, pending |-> pend, kind |-> "cached"]
    ELSE IF InFlight(pend) >= MaxInFlight
    THEN [tm |-> tm, pending |-> pend, kind |-> "overflow"]
    ELSE [tm |-> [tm EXCEPT !.refreshPromise = SharedPromise],
          pending |-> Add(Unshare(pend),
                          NewCall("refreshToken", "manager", origin,
                                  RefreshOptions(config))),
          kind |-> "started"]

\* getToken up to its first await (or its return): tm and pend are the
\* manager and the calls in flight as the caller left them
TM_getToken(tm, pend, origin, config) ==
    IF ~isSSOAuthenticated(ssoState)
    THEN [tm |-> tm, pending |-> pend, kind |-> "notAuthenticated"]
    ELSE IF TM_isTokenStillValid(ssoState) /\ getCurrentToken(ssoState) # NoToken
    THEN [tm |-> tm, pending |-> pend, kind |-> "cached"]
    ELSE IF tm.refreshPromise # NoPromise
    THEN LET c == CHOOSE x \in BagToSet(pend) : x.shared
             d == IF origin = "timer"
                  THEN [c EXCEPT !.timerWaiters = @ + 1]
                  ELSE c
         IN [tm |-> tm, pending |-> Add(Remove(pend, c), d), kind |-> "joined"]
    ELSE IF InFlight(pend) >= MaxInFlight
    THEN [tm |-> tm, pending |-> pend, kind |-> "overflow"]
    ELSE [tm |-> [tm EXCEPT !.refreshPromise = SharedPromise],
          pending |-> Add(pend, NewCall("refreshToken", "manager", origin,
                                        RefreshOptions(config))),
          kind |-> "started"]

\* tokenManager.getToken(config) called from outside (getValidToken)
TM_getTokenCall(config) ==
    /\ identitySource = "delegated"
    /\ LET r == TM_getToken(tokenManager, pending, "call", config)
       IN /\ r.kind # "overflow"
          /\ tokenManager' = r.tm
          /\ pending' = r.pending
          /\ lastCall' = Observe("getToken", "call", r.kind)
          /\ undisturbed' = UndisturbedAfter(r, "getToken")
    /\ UNCHANGED << realtimeVars, identitySource, now, isInitialized, ssoState,
                    azureTokenManager, retryTimers, timerFailed >>

\* tokenManager.forceRefresh(config)
TM_forceRefresh(config) ==
    /\ identitySource = "delegated"
    /\ LET r == TM_getToken([tokenManager EXCEPT !.refreshPromise = NoPromise],
                            Unshare(pending), "call", config)
       IN /\ r.kind # "overflow"
          /\ tokenManager' = r.tm
          /\ pending' = r.pending
          /\ lastCall' = Observe("forceRefresh", "call", r.kind)
          /\ undisturbed' = UndisturbedAfter(r, "forceRefresh")
    /\ UNCHANGED << realtimeVars, identitySource, now, isInitialized, ssoState,
                    azureTokenManager, retryTimers, timerFailed >>

\* stopAutoRefresh as a function of the manager
TM_stopped(tm) ==
    IF tm.refreshTimer.state # "null"
    THEN [tm EXCEPT !.refreshTimer = NoTimer]
    ELSE tm

\* tokenManager.stopAutoRefresh() (stopTokenAutoRefresh)
TM_stopAutoRefresh ==
    /\ identitySource = "delegated"
    /\ tokenManager' = TM_stopped(tokenManager)
    /\ lastCall' = Observe("stopAutoRefresh", "call", "done")
    /\ UNCHANGED << realtimeVars, identitySource, now, isInitialized, ssoState,
                    azureTokenManager, pending, retryTimers, timerFailed,
                    undisturbed >>

\* startAutoRefresh as a function of the manager
TM_started(tm, s) ==
    IF ~isSSOAuthenticated(s) THEN tm ELSE TM_scheduleNextRefresh(tm, s)

\* tokenManager.startAutoRefresh() (startTokenAutoRefresh)
TM_startAutoRefresh ==
    /\ identitySource = "delegated"
    /\ tokenManager' = TM_started(tokenManager, ssoState)
    /\ lastCall' = NoCall
    /\ UNCHANGED << realtimeVars, identitySource, now, isInitialized, ssoState,
                    azureTokenManager, pending, retryTimers, timerFailed,
                    undisturbed >>

\* tokenManager.clear()
TM_clear ==
    /\ identitySource = "delegated"
    /\ tokenManager' = [TM_stopped(tokenManager) EXCEPT !.refreshPromise = NoPromise]
    /\ pending' = Unshare(pending)
    /\ lastCall' = Observe("clear", "call", "done")
    /\ undisturbed' = (ManagerCalls = EmptyBag)
    /\ UNCHANGED << realtimeVars, identitySource, now, isInitialized, ssoState,
                    azureTokenManager, retryTimers, timerFailed >>

\* the setTimeout callback of scheduleNextRefresh: getToken(), and on a
\* rejection that is already known, the 60 s cooldown timer
TM_refreshTimerFires ==
    /\ identitySource = "delegated"
    /\ tokenManager.refreshTimer.state = "armed"
    /\ now >= tokenManager.refreshTimer.due
    /\ TimerRoom
    /\ LET r == TM_getToken([tokenManager EXCEPT !.refreshTimer = NoTimer],
                            pending, "timer", TM_TimerConfig)
       IN /\ r.kind # "overflow"
          /\ tokenManager' = r.tm
          /\ pending' = r.pending
          /\ retryTimers' = IF r.kind = "notAuthenticated"
                            THEN retryTimers (+) SetToBag({RetryTimer("none")})
                            ELSE retryTimers
          /\ lastCall' = Observe("getToken", "timer", r.kind)
          /\ undisturbed' = UndisturbedAfter(r, "getToken")
    /\ UNCHANGED << realtimeVars, identitySource, now, isInitialized, ssoState,
                    azureTokenManager, timerFailed >>

\* the 60 s cooldown callback: scheduleNextRefresh()
TM_retryTimerFires ==
    /\ identitySource = "delegated"
    /\ \E d \in BagToSet(retryTimers) :
          /\ now >= d.due
          /\ retryTimers' = retryTimers (-) SetToBag({d})
    /\ tokenManager' = TM_scheduleNextRefresh(tokenManager, ssoState)
    /\ lastCall' = NoCall
    /\ UNCHANGED << realtimeVars, identitySource, now, isInitialized, ssoState,
                    azureTokenManager, pending, timerFailed, undisturbed >>

\* tokens the host can return now: well-formed ones with an exp claim, and
\* ones parseJWTToken cannot decode: not three segments, a payload that is
\* not base64 or not JSON, a payload without exp
DecodableTokens == { Jwt(3, "json", (now \div 1000) + e) : e \in ExpiresIn }
UndecodableTokens ==
    { Jwt(2, "json", 0), Jwt(3, "invalidBase64", 0),
      Jwt(3, "invalidJSON", 0), Jwt(3, "json", 0) }
AnyHostTokens == DecodableTokens \cup UndecodableTokens
\* the same with a single undecodable token, the one without exp
HostTokens == DecodableTokens \cup {Jwt(3, "json", 0)}

\* OfficeRuntime.auth.getAccessToken resolves inside refreshToken; when the
\* TokenManager started the call, getToken's continuation runs: it clears
\* the promise and schedules the next refresh (the waiters just return)
SSO_refreshTokenResolvesWith(c, jwt) ==
          /\ c.fn = "refreshToken"
          /\ LET s2 == [ssoState EXCEPT !.token = parseJWTToken(jwt),
                                        !.isAuthenticated = TRUE]
                 mine == c.by = "manager"
             IN /\ ssoState' = s2
                /\ tokenManager' =
                      IF mine
                      THEN TM_scheduleNextRefresh(
                               [tokenManager EXCEPT !.refreshPromise = NoPromise], s2)
                      ELSE tokenManager
                /\ lastCall' = IF mine THEN Observe("settled", "none", "ok")
                               ELSE NoCall
                /\ timerFailed' = IF mine THEN FALSE ELSE timerFailed
          /\ pending' = IF c.by = "manager" THEN Unshare(Remove(pending, c))
                         ELSE Remove(pending, c)
          /\ undisturbed' = SettledUndisturbed(c)

SSO_refreshTokenResolvesFrom(tokens) ==
    /\ identitySource = "delegated"
    /\ \E c \in BagToSet(pending) : \E jwt \in tokens :
          SSO_refreshTokenResolvesWith(c, jwt)
    /\ UNCHANGED << realtimeVars, identitySource, now, isInitialized, azureTokenManager,
                    retryTimers >>

SSO_refreshTokenResolves == SSO_refreshTokenResolvesFrom(HostTokens)

\* getAccessToken rejects inside refreshToken: the service marks the user
\* unauthenticated; every getToken awaiting the call clears the promise and
\* rethrows, and each timer callback among them sets its cooldown timer
SSO_refreshTokenRejects ==
    /\ identitySource = "delegated"
    /\ \E c \in BagToSet(pending) :
          /\ c.fn = "refreshToken"
          /\ LET mine == c.by = "manager"
             IN /\ ssoState' = [ssoState EXCEPT !.isAuthenticated = FALSE]
                /\ tokenManager' =
                      IF mine
                      THEN [tokenManager EXCEPT !.refreshPromise = NoPromise]
                      ELSE tokenManager
                /\ retryTimers' = IF mine THEN retryTimers (+) CooldownsFor(c)
                                  ELSE retryTimers
                /\ lastCall' = IF mine THEN Observe("settled", "none", "failed")
                               ELSE NoCall
                /\ timerFailed' = IF mine THEN timerFailed \/ c.origin = "timer"
                                  ELSE timerFailed
          /\ pending' = IF c.by = "manager" THEN Unshare(Remove(pending, c))
                         ELSE Remove(pending, c)
          /\ undisturbed' = SettledUndisturbed(c)
    /\ UNCHANGED << realtimeVars, identitySource, now, isInitialized, azureTokenManager >>

\* initializeSSO up to its await: no host call when already authenticated
SSO_initializeSSO(config) ==
    IF isInitialized /\ ssoState.isAuthenticated /\ ssoState.token # NoToken
    THEN pending' = pending
    ELSE /\ InFlight(pending) < MaxInFlight
         /\ pending' = Add(pending, NewCall("initializeSSO", "caller", "call",
                                            InitOptions(config)))

\* initializeSSO resolves; its caller (the hook's initializeAuthentication)
\* then calls startTokenAutoRefresh()
SSO_initializeSSOResolvesWith(c, jwt) ==
          /\ c.fn = "initializeSSO"
          /\ LET s2 == [isAuthenticated |-> TRUE, token |-> parseJWTToken(jwt)]
             IN /\ ssoState' = s2
                /\ tokenManager' = TM_started(tokenManager, s2)
          /\ isInitialized' = TRUE
          /\ pending' = Remove(pending, c)

SSO_initializeSSOResolvesFrom(tokens) ==
    /\ identitySource = "delegated"
    /\ \E c \in BagToSet(pending) : \E jwt \in tokens :
          SSO_initializeSSOResolvesWith(c, jwt)
    /\ lastCall' = NoCall
    /\ UNCHANGED << realtimeVars, identitySource, now, azureTokenManager, retryTimers,
                    timerFailed, undisturbed >>

SSO_initializeSSOResolves == SSO_initializeSSOResolvesFrom(HostTokens)

\* initializeSSO's host call rejects
SSO_initializeSSORejects ==
    /\ identitySource = "delegated"
    /\ \E c \in BagToSet(pending) :
          /\ c.fn = "initializeSSO"
          /\ ssoState' = [isAuthenticated |-> FALSE, token |-> NoToken]
          /\ pending' = Remove(pending, c)
    /\ lastCall' = NoCall
    /\ UNCHANGED << realtimeVars, identitySource, now, isInitialized, tokenManager,
                    azureTokenManager, retryTimers, timerFailed, undisturbed >>

\* useSSO: initializeAuthentication(config)
UseSSO_initializeAuthentication(config) ==
    /\ identitySource = "delegated"
    /\ IF isInitialized /\ isSSOAuthenticated(ssoState)
       THEN UNCHANGED pending
       ELSE SSO_initializeSSO(config)
    /\ lastCall' = NoCall
    /\ UNCHANGED << realtimeVars, identitySource, now, isInitialized, ssoState, tokenManager,
                    azureTokenManager, retryTimers, timerFailed, undisturbed >>

\* useSSO: refreshAuthentication(config) (the Refresh button): it calls the
\* service's refreshToken directly, not the TokenManager
UseSSO_refreshAuthentication(config) ==
    /\ identitySource = "delegated"
    /\ IF ~isSSOAuthenticated(ssoState)
       THEN IF isInitialized /\ isSSOAuthenticated(ssoState)
            THEN UNCHANGED pending
            ELSE SSO_initializeSSO(config)
       ELSE /\ InFlight(pending) < MaxInFlight
            /\ pending' = Add(pending, NewCall("refreshToken", "caller", "call",
                                               RefreshOptions(config)))
    /\ lastCall' = NoCall
    /\ UNCHANGED << realtimeVars, identitySource, now, isInitialized, ssoState, tokenManager,
                    azureTokenManager, retryTimers, timerFailed, undisturbed >>

\* isSSOInitialized()
isSSOInitialized == isInitialized

\* useSSO: the initialization effect when a component using the hook mounts:
\* once the service is initialized it only copies the service state,
\* otherwise it calls initializeAuthentication without prompts
UseSSO_mount ==
    /\ identitySource = "delegated"
    /\ IF isSSOInitialized
       THEN UNCHANGED pending
       ELSE IF isSSOInitialized /\ isSSOAuthenticated(ssoState)
       THEN UNCHANGED pending
       ELSE SSO_initializeSSO([allowSignInPrompt |-> "false",
                               allowConsentPrompt |-> "false"])
    /\ lastCall' = Observe("mount", "call", "done")
    /\ UNCHANGED << realtimeVars, identitySource, now, isInitialized, ssoState, tokenManager,
                    azureTokenManager, retryTimers, timerFailed, undisturbed >>

\* useSSO: the effect's cleanup when the component unmounts
UseSSO_unmount ==
    /\ identitySource = "delegated"
    /\ tokenManager' = TM_stopped(tokenManager)
    /\ lastCall' = Observe("unmount", "call", "done")
    /\ UNCHANGED << realtimeVars, identitySource, now, isInitialized, ssoState,
                    azureTokenManager, pending, retryTimers, timerFailed,
                    undisturbed >>

\* useSSO: signOut(): stopTokenAutoRefresh() and the hook's own React state
UseSSO_signOut ==
    /\ identitySource = "delegated"
    /\ tokenManager' = TM_stopped(tokenManager)
    /\ lastCall' = Observe("signOut", "call", "done")
    /\ UNCHANGED << realtimeVars, identitySource, now, isInitialized, ssoState,
                    azureTokenManager, pending, retryTimers, timerFailed,
                    undisturbed >>

\* ----------------------------------------------------- AzureTokenManager
AZ_REFRESH_THRESHOLD_MS == 5 * 60 * 1000

\* validateConfig: throws when a field is missing
AZ_validateConfig(config) == config = "valid"

AZ_isTokenValid(atm) ==
    IF atm.cachedToken = NoAzureToken THEN FALSE
    ELSE atm.cachedToken.expiresAt > now + AZ_REFRESH_THRESHOLD_MS

\* scheduleNextRefresh(config) up to and including setTimeout; the callback
\* is AZ_refreshTimerFires
AZ_scheduleNextRefresh(atm, config) ==
    IF atm.cachedToken = NoAzureToken
    THEN [atm EXCEPT !.refreshTimer = NoTimer]
    ELSE [atm EXCEPT !.refreshTimer =
             [state |-> "armed",
              due |-> now + Max(0, (atm.cachedToken.expiresAt - now)
                                   - AZ_REFRESH_THRESHOLD_MS),
              config |-> config]]

\* getToken(config) up to its first await (or its return or throw)
AZ_getToken(atm, pend, origin, config) ==
    IF ~AZ_validateConfig(config)
    THEN [atm |-> atm, pending |-> pend, kind |-> "configError"]
    ELSE LET a == [atm EXCEPT !.currentConfig = config]
         IN IF a.cachedToken # NoAzureToken /\ AZ_isTokenValid(a)
            THEN [atm |-> a, pending |-> pend, kind |-> "cached"]
            ELSE IF a.refreshPromise # NoPromise
            THEN LET c == CHOOSE x \in BagToSet(pend) : x.shared
                     d == IF origin = "timer"
                          THEN [c EXCEPT !.timerWaiters = @ + 1]
                          ELSE c
                 IN [atm |-> a, pending |-> Add(Remove(pend, c), d),
                     kind |-> "joined"]
            ELSE IF InFlight(pend) >= MaxInFlight
            THEN [atm |-> a, pending |-> pend, kind |-> "overflow"]
            ELSE [atm |-> [a EXCEPT !.refreshPromise = SharedPromise],
                  pending |-> Add(pend, NewCall("acquireToken", "manager",
                                                origin, NoOptions)),
                  kind |-> "started"]

\* azureTokenManager.getToken(config) called from outside (getAzureToken)
AZ_getTokenCall(config) ==
    /\ identitySource = "clientCredentials"
    /\ LET r == AZ_getToken(azureTokenManager, pending, "call", config)
       IN /\ r.kind # "overflow"
          /\ azureTokenManager' = r.atm
          /\ pending' = r.pending
          /\ lastCall' = Observe("getToken", "call", r.kind)
          /\ undisturbed' = UndisturbedAfter(r, "getToken")
    /\ UNCHANGED << realtimeVars, identitySource, now, isInitialized, ssoState,
                    tokenManager, retryTimers, timerFailed >>

\* azureTokenManager.forceRefresh(config)
AZ_forceRefresh(config) ==
    /\ identitySource = "clientCredentials"
    /\ LET r == AZ_getToken([azureTokenManager EXCEPT
                                 !.cachedToken = NoAzureToken,
                                 !.refreshPromise = NoPromise],
                            Supersede(pending), "call", config)
       IN /\ r.kind # "overflow"
          /\ azureTokenManager' = r.atm
          /\ pending' = r.pending
          /\ lastCall' = Observe("forceRefresh", "call", r.kind)
          /\ undisturbed' = UndisturbedAfter(r, "forceRefresh")
    /\ UNCHANGED << realtimeVars, identitySource, now, isInitialized, ssoState,
                    tokenManager, retryTimers, timerFailed >>

\* stopAutoRefresh as a function of the manager
AZ_stopped(atm) ==
    IF atm.refreshTimer.state # "null"
    THEN [atm EXCEPT !.refreshTimer = NoTimer]
    ELSE atm

\* azureTokenManager.stopAutoRefresh()
AZ_stopAutoRefresh ==
    /\ identitySource = "clientCredentials"
    /\ azureTokenManager' = AZ_stopped(azureTokenManager)
    /\ lastCall' = Observe("stopAutoRefresh", "call", "done")
    /\ UNCHANGED << realtimeVars, identitySource, now, isInitialized, ssoState,
                    tokenManager, pending, retryTimers, timerFailed,
                    undisturbed >>

\* azureTokenManager.startAutoRefresh(config)
AZ_startAutoRefresh(config) ==
    /\ identitySource = "clientCredentials"
    /\ LET a == [azureTokenManager EXCEPT !.currentConfig = config]
       IN azureTokenManager' =
              IF a.cachedToken = NoAzureToken THEN a
              ELSE AZ_scheduleNextRefresh(a, config)
    /\ lastCall' = NoCall
    /\ UNCHANGED << realtimeVars, identitySource, now, isInitialized, ssoState,
                    tokenManager, pending, retryTimers, timerFailed,
                    undisturbed >>

\* azureTokenManager.clear()
AZ_clear ==
    /\ identitySource = "clientCredentials"
    /\ azureTokenManager' = [AZ_stopped(azureTokenManager) EXCEPT
                                !.cachedToken = NoAzureToken,
                                !.refreshPromise = NoPromise,
                                !.currentConfig = "null"]
    /\ pending' = Supersede(pending)
    /\ lastCall' = Observe("clear", "call", "done")
    /\ undisturbed' = (ManagerCalls = EmptyBag)
    /\ UNCHANGED << realtimeVars, identitySource, now, isInitialized, ssoState,
                    tokenManager, retryTimers, timerFailed >>

\* the setTimeout callback of scheduleNextRefresh(config): getToken(config),
\* and on a rejection that is already known, the 60 s cooldown timer
AZ_refreshTimerFires ==
    /\ identitySource = "clientCredentials"
    /\ azureTokenManager.refreshTimer.state = "armed"
    /\ now >= azureTokenManager.refreshTimer.due
    /\ TimerRoom
    /\ LET config == azureTokenManager.refreshTimer.config
           r == AZ_getToken([azureTokenManager EXCEPT !.refreshTimer = NoTimer],
                            pending, "timer", config)
       IN /\ r.kind # "overflow"
          /\ azureTokenManager' = r.atm
          /\ pending' = r.pending
          /\ retryTimers' = IF r.kind = "configError"
                            THEN retryTimers (+) SetToBag({RetryTimer(config)})
                            ELSE retryTimers
          /\ lastCall' = Observe("getToken", "timer", r.kind)
          /\ undisturbed' = UndisturbedAfter(r, "getToken")
    /\ UNCHANGED << realtimeVars, identitySource, now, isInitialized, ssoState,
                    tokenManager, timerFailed >>

\* the 60 s cooldown callback: scheduleNextRefresh(config)
AZ_retryTimerFires ==
    /\ identitySource = "clientCredentials"
    /\ \E t \in BagToSet(retryTimers) :
          /\ now >= t.due
          /\ retryTimers' = retryTimers (-) SetToBag({t})
          /\ azureTokenManager' = AZ_scheduleNextRefresh(azureTokenManager, t.config)
    /\ lastCall' = NoCall
    /\ UNCHANGED << realtimeVars, identitySource, now, isInitialized, ssoState,
                    tokenManager, pending, timerFailed, undisturbed >>

\* acquireToken's write of this.cachedToken when call c gets its answer
AZ_cached(atm, c, expires_in) ==
    [expiresAt |-> now + (expires_in * 1000), acquiredAt |-> now]

\* the token endpoint answers 200 with expires_in seconds: acquireToken
\* caches the token; getToken's continuation clears the promise and
\* schedules the next refresh
AZ_acquireTokenResolvesWith(c, expires_in) ==
          /\ c.fn = "acquireToken"
          /\ LET a == [azureTokenManager EXCEPT
                          !.cachedToken = AZ_cached(azureTokenManager, c, expires_in),
                          !.refreshPromise = NoPromise]
             IN azureTokenManager' = AZ_scheduleNextRefresh(a, c.config)
          /\ pending' = Unshare(Remove(pending, c))
          /\ undisturbed' = SettledUndisturbed(c)

AZ_acquireTokenResolves ==
    /\ identitySource = "clientCredentials"
    /\ \E c \in BagToSet(pending) : \E expires_in \in ExpiresIn :
          AZ_acquireTokenResolvesWith(c, expires_in)
    /\ lastCall' = Observe("settled", "none", "ok")
    /\ timerFailed' = FALSE
    /\ UNCHANGED << realtimeVars, identitySource, now, isInitialized, ssoState,
                    tokenManager, retryTimers >>

\* the fetch fails or answers an error status: every getToken awaiting the
\* call clears the promise and rethrows, and each timer callback among them
\* sets its cooldown timer
AZ_acquireTokenRejects ==
    /\ identitySource = "clientCredentials"
    /\ \E c \in BagToSet(pending) :
          /\ c.fn = "acquireToken"
          /\ azureTokenManager' = [azureTokenManager EXCEPT
                                      !.refreshPromise = NoPromise]
          /\ retryTimers' = retryTimers (+) CooldownsFor(c)
          /\ timerFailed' = (timerFailed \/ c.origin = "timer")
          /\ pending' = Unshare(Remove(pending, c))
          /\ undisturbed' = SettledUndisturbed(c)
    /\ lastCall' = Observe("settled", "none", "failed")
    /\ UNCHANGED << realtimeVars, identitySource, now, isInitialized, ssoState,
                    tokenManager >>

\* ------------------------------------------------------- negotiateService
DEFAULT_MAX_RETRIES == 3
DEFAULT_RETRY_DELAY_MS == 1000

\* Math.pow(2, n)
Pow2(n) == 2 ^ n

\* NegotiateConfig as a caller passes it: the URL is missing, https or http;
\* maxRetries and retryDelayMs are numbers or left undefined
NegotiateUrls == {"missing", "https", "http"}
Undefined == [defined |-> FALSE, value |-> 0]
Num(k) == [defined |-> TRUE, value |-> k]
NegotiateConfigs ==
    [negotiateUrl : NegotiateUrls,
     maxRetries : {Undefined} \cup { Num(k) : k \in 0..MaxRetriesArg },
     retryDelayMs : {Undefined, Num(100)}]
BearerTokens == {"empty", "token"}

\* config.maxRetries ?? DEFAULT_MAX_RETRIES, config.retryDelayMs ?? DEFAULT_RETRY_DELAY_MS
MaxRetriesOf(config) ==
    IF config.maxRetries = Undefined THEN DEFAULT_MAX_RETRIES
    ELSE config.maxRetries.value
RetryDelayOf(config) ==
    IF config.retryDelayMs = Undefined THEN DEFAULT_RETRY_DELAY_MS
    ELSE config.retryDelayMs.value

\* what one fetch can come to: a 2xx with a valid body, a 2xx whose JSON lacks
\* url or accessToken, a 2xx whose body is not JSON, a 401, a 403, another
\* status, or a rejected fetch.  authWords says whether the text the outside
\* supplies (the response body, or the message of the error thrown by fetch
\* or by response.json()) contains "401", "403", "authentication failed" or
\* "unauthorized" in any letter case.
Responses ==
    { [kind |-> "ok", status |-> 200, authWords |-> FALSE],
      [kind |-> "malformed", status |-> 200, authWords |-> FALSE] }
    \cup [kind : {"unparseable"}, status : {200}, authWords : BOOLEAN]
    \cup [kind : {"status"}, status : {401, 403, 500}, authWords : BOOLEAN]
    \cup [kind : {"networkError"}, status : {0}, authWords : BOOLEAN]

\* the Error an attempt throws for response r: which message template it
\* has, the status the message prints (0 for none), and whether the text it
\* embeds has an auth word; attempt is kept to tell the failures apart
ErrorOf(r, attempt) ==
    IF r.kind = "status" /\ r.status \in {401, 403}
    THEN [template |-> "Authentication failed during SignalR negotiation",
          status |-> r.status, authWords |-> r.authWords, attempt |-> attempt]
    ELSE IF r.kind = "status"
    THEN [template |-> "Negotiate request failed",
          status |-> r.status, authWords |-> r.authWords, attempt |-> attempt]
    ELSE IF r.kind = "malformed"
    THEN [template |-> "Invalid negotiate response",
          status |-> 0, authWords |-> FALSE, attempt |-> attempt]
    ELSE [template |-> "thrown",
          status |-> 0, authWords |-> r.authWords, attempt |-> attempt]

NoError == [template |-> "none", status |-> 0, authWords |-> FALSE, attempt |-> 0]

\* a classifier that takes nothing for an authentication error
isAuthError_Never(error) == FALSE

\* isAuthError: the lower-cased message includes '401', '403',
\* 'authentication failed' or 'unauthorized'
isAuthError(error) ==
    \/ error.status \in {401, 403}
    \/ error.template = "Authentication failed during SignalR negotiation"
    \/ error.authWords

\* a backoff that doubles once too often
BackoffDelay_Doubled(retryDelayMs, attempt) == retryDelayMs * Pow2(attempt)

\* retryDelayMs * Math.pow(2, attempt - 1)
BackoffDelay(retryDelayMs, attempt) == retryDelayMs * Pow2(attempt - 1)

\* the for loop's condition
LoopContinues(attempt, maxRetries) == attempt <= maxRetries

\* if (attempt === maxRetries) break
IsLastAttempt(attempt, maxRetries) == attempt = maxRetries

NoResponse == [kind |-> "none", status |-> 0, authWords |-> FALSE]

\* negotiate() before it is called: its arguments and locals, the fetches
\* made (calls), the time slept so far (waited) and at the start of each
\* attempt (startTimes; a fetch itself takes no time here), the response to
\* the latest fetch, and the outcome
NegotiateIdle ==
    [phase |-> "idle", url |-> "missing", bearerToken |-> "empty",
     maxRetries |-> 0, retryDelayMs |-> 0,
     attempt |-> 0, calls |-> 0, waited |-> 0, startTimes |-> << >>,
     lastError |-> NoError, lastResponse |-> NoResponse, callsAtSuccess |-> 0,
     outcome |-> [type |-> "none", attempts |-> 0, cause |-> NoError]]

\* an aggregate error that forgets the cause
AggregateError_UnknownCause(maxRetries, lastError) ==
    [type |-> "aggregate", attempts |-> maxRetries, cause |-> NoError]

\* `SignalR negotiation failed after ${maxRetries} attempts: ${lastError?.message}`
AggregateError(maxRetries, lastError) ==
    [type |-> "aggregate", attempts |-> maxRetries, cause |-> lastError]

\* the top of the for loop: the next fetch, or the aggregate error once the
\* loop is left
Negotiate_loop(n) ==
    IF LoopContinues(n.attempt, n.maxRetries)
    THEN [n EXCEPT !.phase = "fetching",
                   !.calls = @ + 1,
                   !.startTimes = Append(@, n.waited)]
    ELSE [n EXCEPT !.phase = "rejected",
                   !.outcome = AggregateError(n.maxRetries, n.lastError)]

\* negotiate(config, bearerToken) up to its first await
Negotiate_call(config, bearerToken) ==
    /\ negotiateCall.phase = "idle"
    /\ LET n == [negotiateCall EXCEPT !.url = config.negotiateUrl,
                                      !.bearerToken = bearerToken,
                                      !.maxRetries = MaxRetriesOf(config),
                                      !.retryDelayMs = RetryDelayOf(config),
                                      !.attempt = 1]
       IN negotiateCall' =
            IF config.negotiateUrl = "missing"
            THEN [n EXCEPT !.phase = "rejected",
                           !.outcome = [type |-> "urlRequired", attempts |-> 0,
                                        cause |-> NoError]]
            ELSE IF bearerToken = "empty"
            THEN [n EXCEPT !.phase = "rejected",
                           !.outcome = [type |-> "tokenRequired", attempts |-> 0,
                                        cause |-> NoError]]
            ELSE Negotiate_loop(n)
    /\ UNCHANGED << tokenVars, signalrVars >>

\* the fetch of the current attempt settles with response r
Negotiate_fetchSettles(r) ==
    /\ negotiateCall.phase = "fetching"
    /\ LET n == [negotiateCall EXCEPT !.lastResponse = r]
           e == ErrorOf(r, n.attempt)
           failed == [n EXCEPT !.lastError = e]
       IN negotiateCall' =
            IF r.kind = "ok"
            THEN [n EXCEPT !.phase = "resolved",
                           !.callsAtSuccess = n.calls,
                           !.outcome = [type |-> "connectionInfo",
                                        attempts |-> n.attempt, cause |-> NoError]]
            ELSE IF isAuthError(e)
            THEN [failed EXCEPT !.phase = "rejected",
                                !.outcome = [type |-> "rethrown",
                                             attempts |-> n.attempt, cause |-> e]]
            ELSE IF IsLastAttempt(n.attempt, n.maxRetries)
            THEN [failed EXCEPT !.phase = "rejected",
                                !.outcome = AggregateError(n.maxRetries, e)]
            ELSE [failed EXCEPT !.phase = "sleeping"]
    /\ UNCHANGED << tokenVars, signalrVars >>

\* sleep(delay) is over: attempt++ and the loop goes on
Negotiate_sleepEnds ==
    /\ negotiateCall.phase = "sleeping"
    /\ LET n == negotiateCall
       IN negotiateCall' =
            Negotiate_loop([n EXCEPT
                !.waited = @ + BackoffDelay(n.retryDelayMs, n.attempt),
                !.attempt = @ + 1])
    /\ UNCHANGED << tokenVars, signalrVars >>

NextNegotiate ==
    \/ \E config \in NegotiateConfigs : \E bearerToken \in BearerTokens :
          Negotiate_call(config, bearerToken)
    \/ \E r \in Responses : Negotiate_fetchSettles(r)
    \/ Negotiate_sleepEnds

\* --------------------------------------------------------- signalrService
\* hub method names a config may carry handlers for
Methods == {"NotificationReceived", "BroadcastMessage"}

\* SignalRConfig: hubUrl is missing, https or http; negotiateUrl is absent
\* ("none"), https or http; each token source is present or not; handlers
\* names the methods config.handlers has a handler for
SignalRConfigs ==
    [hubUrl : {"https"}, negotiateUrl : {"none", "https"},
     ssoTokenProvider : BOOLEAN, azureTokenProvider : BOOLEAN,
     accessToken : BOOLEAN, handlers : {{}, Methods}]
    \cup [hubUrl : {"missing", "http"}, negotiateUrl : {"none"},
          ssoTokenProvider : {FALSE}, azureTokenProvider : {FALSE},
          accessToken : {TRUE}, handlers : {Methods}]
    \cup [hubUrl : {"https"}, negotiateUrl : {"http"},
          ssoTokenProvider : {FALSE}, azureTokenProvider : {TRUE},
          accessToken : {FALSE}, handlers : {Methods}]

\* the config useSignalR builds from the environment
HookConfig ==
    [hubUrl |-> "https", negotiateUrl |-> "none", ssoTokenProvider |-> FALSE,
     azureTokenProvider |-> FALSE, accessToken |-> TRUE, handlers |-> Methods]

\* validateSignalRConfig: "ok" or the error it throws
validateSignalRConfig(config) ==
    IF config.hubUrl = "missing" THEN "hubUrlRequired"
    ELSE IF config.hubUrl # "https" THEN "hubUrlNotHttps"
    ELSE IF config.negotiateUrl # "none" /\ config.negotiateUrl # "https"
    THEN "negotiateUrlNotHttps"
    ELSE "ok"

\* the source initializeSignalR takes the bearer token for negotiate from
NegotiateBearerSource(config) ==
    IF config.azureTokenProvider THEN "azureTokenProvider"
    ELSE IF config.ssoTokenProvider THEN "ssoTokenProvider"
    ELSE IF config.accessToken THEN "accessToken"
    ELSE "getValidToken"

\* the sources the direct flow's tokenFactory consults, given whether the
\* provider it awaits resolves
DirectTokenSources(config, providerResolves) ==
    IF config.ssoTokenProvider
    THEN IF providerResolves THEN {"ssoTokenProvider"}
         ELSE {"ssoTokenProvider", "accessToken"}
    ELSE IF ~config.accessToken
    THEN IF providerResolves THEN {"getValidToken"}
         ELSE {"getValidToken", "accessToken"}
    ELSE {"accessToken"}

\* a HubConnection: state is "none" until it is built; handlers are the
\* method names bound with on(); startInvoked and boundAtStart record the
\* start() call and the handlers bound when it was made; tokenSources are
\* the bearer-token sources consulted for it
NoConnection ==
    [state |-> "none", handlers |-> {}, startInvoked |-> FALSE,
     boundAtStart |-> {}, negotiated |-> FALSE, tokenSources |-> {},
     connectionInfo |-> 0, owner |-> 0]

SignalRIdle ==
    [isInitialized |-> FALSE, connection |-> 0, currentConfig |-> "null",
     currentConnectionInfo |-> "null", isUsingNegotiateFlow |-> FALSE]

\* conn is the connection a call returned (0 for none or null)
SignalRStep(op, result, conn) == [op |-> op, result |-> result, conn |-> conn]
NoSignalRStep == SignalRStep("none", "none", 0)

\* the number the next HubConnection gets
NextConnection == 1 + Cardinality({ i \in 1..MaxConnections : hub[i].state # "none" })
CallsInFlight == BagCardinality(inits) + BagCardinality(stops)

\* getConnectionState(), isConnected(), isSignalRInitialized()
getConnectionState(sr, h) ==
    IF sr.connection = 0 THEN "Disconnected" ELSE h[sr.connection].state
isConnected(sr, h) ==
    IF sr.connection = 0 THEN FALSE ELSE h[sr.connection].state = "Connected"
isSignalRInitialized(sr) == sr.isInitialized

\* builder.build(): a fresh, disconnected HubConnection
BuildConnection(negotiated, sources) ==
    [NoConnection EXCEPT !.state = "Disconnected", !.negotiated = negotiated,
                         !.tokenSources = sources]

\* a registration loop that binds nothing
RegisterHandlers_None(c, config) == c

\* the loop over config.handlers: connection.on(methodName, ...)
RegisterHandlers(c, config) ==
    [c EXCEPT !.handlers = @ \cup config.handlers]

\* connection.start() is invoked
StartConnection(c) ==
    [c EXCEPT !.state = "Connecting", !.startInvoked = TRUE,
              !.boundAtStart = c.handlers]

\* initializeSignalR from builder.build() to the await of start()
BuildAndStart(config, negotiated, sources) ==
    StartConnection(RegisterHandlers(BuildConnection(negotiated, sources), config))

\* an initializeSignalR call in flight: stage is what it awaits ("token",
\* "negotiate" or "start"), conn the connection it built, sources the
\* bearer-token sources it consulted
InitCall(stage, conn, sources) ==
    [stage |-> stage, conn |-> conn, sources |-> sources, stopCalled |-> FALSE,
     negotiation |-> 0]

\* await negotiate(...): the call makes the next negotiate() call of the run
\* and waits for its result
CallNegotiate(c) ==
    [c EXCEPT !.stage = "negotiate", !.negotiation = negotiations + 1]

\* const connectionInfo = await negotiate(...): the result the call's own
\* negotiate() call returned
connectionInfoOf_First(c) == 1
connectionInfoOf(c) == c.negotiation

\* withUrl(connectionUrl, { accessTokenFactory }): the negotiate result whose
\* URL and token the connection uses (0 in the direct flow)
withUrl(c, info) == [c EXCEPT !.connectionInfo = info]

\* stopSignalR() was called: every initializeSignalR() call in progress has
\* seen a stop since it began
RECURSIVE StopCalled(_)
StopCalled(calls) ==
    LET S == { c \in BagToSet(calls) : ~c.stopCalled }
    IN IF S = {} THEN calls
       ELSE LET c == CHOOSE x \in S : TRUE
            IN StopCalled(Add(Remove(calls, c), [c EXCEPT !.stopCalled = TRUE]))

\* initializeSignalR after the negotiate result is in (negotiate flow), or
\* straight away (direct flow): build, bind, start
SignalR_buildFor(sr, info, sources, owner) ==
    /\ NextConnection <= MaxConnections
    /\ hub' = [hub EXCEPT ![NextConnection] =
                  [withUrl(BuildAndStart(hubConfig, info # 0, sources), info)
                      EXCEPT !.owner = owner]]
    /\ signalr' = [sr EXCEPT !.connection = NextConnection]

SignalR_build(sr, info, sources) == SignalR_buildFor(sr, info, sources, 0)

\* initializeSignalR(config) up to its first await (or its return or throw);
\* owner is the useSignalR instance whose messageHandler config.handlers
\* holds (0 for any other caller)
SignalR_initializeSignalRFrom(owner) ==
    LET config == hubConfig
        v == validateSignalRConfig(config)
    IN IF v # "ok"
       THEN /\ lastSignalR' = SignalRStep("initializeSignalR", v, 0)
            /\ UNCHANGED << signalr, hub, inits, negotiations >>
       ELSE IF signalr.isInitialized /\ signalr.connection # 0
       THEN /\ lastSignalR' = SignalRStep("initializeSignalR", "existing",
                                          signalr.connection)
            /\ UNCHANGED << signalr, hub, inits, negotiations >>
       ELSE /\ CallsInFlight < MaxSignalRCalls
            /\ lastSignalR' = SignalRStep("initializeSignalR", "awaiting", 0)
            /\ IF config.negotiateUrl # "none"
               THEN LET src == NegotiateBearerSource(config)
                    IN /\ signalr' = [signalr EXCEPT !.isUsingNegotiateFlow = TRUE]
                       /\ IF src = "accessToken"
                          THEN /\ negotiations < MaxNegotiations
                               /\ inits' = Add(inits,
                                     CallNegotiate(InitCall("token", 0, {src})))
                               /\ negotiations' = negotiations + 1
                          ELSE /\ inits' = Add(inits, InitCall("token", 0, {src}))
                               /\ UNCHANGED negotiations
                       /\ UNCHANGED hub
               ELSE /\ SignalR_buildFor([signalr EXCEPT !.isUsingNegotiateFlow = FALSE],
                                        0, {}, owner)
                    /\ inits' = Add(inits, InitCall("start", NextConnection, {}))
                    /\ UNCHANGED negotiations

SignalR_initializeSignalR == SignalR_initializeSignalRFrom(0)

SignalR_initializeSignalRCall ==
    /\ SignalR_initializeSignalR
    /\ UNCHANGED << tokenVars, negotiateVars, messageVars, hubConfig, useSignalR, stops >>

\* the token provider awaited for the negotiate call settles
SignalR_tokenSettles ==
    /\ \E c \in BagToSet(inits) : \E ok \in BOOLEAN :
          /\ c.stage = "token"
          /\ ok => negotiations < MaxNegotiations
          /\ inits' = IF ok THEN Add(Remove(inits, c), CallNegotiate(c))
                      ELSE Remove(inits, c)
          /\ negotiations' = IF ok THEN negotiations + 1 ELSE negotiations
          /\ lastSignalR' = IF ok THEN NoSignalRStep
                            ELSE SignalRStep("initializeSignalR", "tokenFailed", 0)
    /\ UNCHANGED << tokenVars, negotiateVars, messageVars, hubConfig, useSignalR, signalr, hub, stops >>

\* negotiate() resolves: the call stores the connection info, builds the
\* connection, binds the handlers and starts it
SignalR_negotiateResolves ==
    /\ \E c \in BagToSet(inits) :
          /\ c.stage = "negotiate"
          /\ SignalR_build([signalr EXCEPT !.currentConnectionInfo = "info"],
                           connectionInfoOf(c), c.sources)
          /\ inits' = Add(Remove(inits, c),
                          [c EXCEPT !.stage = "start", !.conn = NextConnection])
    /\ lastSignalR' = NoSignalRStep
    /\ UNCHANGED << tokenVars, negotiateVars, messageVars, hubConfig, useSignalR, negotiations, stops >>

\* negotiate() rejects
SignalR_negotiateRejects ==
    /\ \E c \in BagToSet(inits) :
          /\ c.stage = "negotiate"
          /\ inits' = Remove(inits, c)
    /\ lastSignalR' = SignalRStep("initializeSignalR", "negotiateFailed", 0)
    /\ UNCHANGED << tokenVars, negotiateVars, messageVars, hubConfig, useSignalR, negotiations, signalr, hub, stops >>

\* the sources consulted once the transport has asked the tokenFactory
SourcesAfterStart(c, providerResolves) ==
    IF hub[c.conn].negotiated THEN hub[c.conn].tokenSources
    ELSE DirectTokenSources(hubConfig, providerResolves)

\* connection.start() resolves: the call marks the service initialized and
\* returns the module's connection
SignalR_startResolvesWith(c, providerResolves) ==
          /\ c.stage = "start"
          /\ hub[c.conn].state = "Connecting"
          /\ hub' = [hub EXCEPT ![c.conn].state = "Connected",
                                ![c.conn].tokenSources =
                                    SourcesAfterStart(c, providerResolves)]
          /\ inits' = Remove(inits, c)

SignalR_startResolves ==
    /\ \E c \in BagToSet(inits) : \E providerResolves \in BOOLEAN :
          SignalR_startResolvesWith(c, providerResolves)
    /\ signalr' = [signalr EXCEPT !.isInitialized = TRUE,
                                  !.currentConfig = "config"]
    /\ lastSignalR' = SignalRStep("initializeSignalR", "returned",
                                  signalr.connection)
    /\ UNCHANGED << tokenVars, negotiateVars, messageVars, hubConfig, useSignalR, negotiations, stops >>

\* connection.start() rejects (the transport failed, or stop() was called
\* on the connection meanwhile, whether or not that stop() has settled yet)
SignalR_startRejects ==
    /\ \E c \in BagToSet(inits) : \E providerResolves \in BOOLEAN :
          /\ c.stage = "start"
          /\ hub[c.conn].state \in {"Connecting", "Disconnecting", "Disconnected"}
          /\ hub' = [hub EXCEPT ![c.conn].state =
                                    IF @ = "Connecting" THEN "Disconnected" ELSE @,
                                ![c.conn].tokenSources =
                                    SourcesAfterStart(c, providerResolves)]
          /\ inits' = Remove(inits, c)
    /\ lastSignalR' = SignalRStep("initializeSignalR", "startFailed", 0)
    /\ UNCHANGED << tokenVars, negotiateVars, messageVars, hubConfig, useSignalR, negotiations, signalr, stops >>

\* the transport loses its link: withAutomaticReconnect makes the connection
\* Reconnecting and runs the onreconnecting callback (which only logs)
SignalR_onreconnecting ==
    /\ \E i \in 1..MaxConnections :
          /\ hub[i].state = "Connected"
          /\ hub' = [hub EXCEPT ![i].state = "Reconnecting"]
    /\ lastSignalR' = SignalRStep("onreconnecting", "done", 0)
    /\ UNCHANGED << tokenVars, negotiateVars, messageVars, hubConfig, useSignalR, negotiations, signalr, inits, stops >>

\* the transport is back: the onreconnected callback only logs
SignalR_onreconnected ==
    /\ \E i \in 1..MaxConnections :
          /\ hub[i].state = "Reconnecting"
          /\ hub' = [hub EXCEPT ![i].state = "Connected"]
    /\ lastSignalR' = SignalRStep("onreconnected", "done", 0)
    /\ UNCHANGED << tokenVars, negotiateVars, messageVars, hubConfig, useSignalR, negotiations, signalr, inits, stops >>

\* the onclose callback
onclose(sr) ==
    [sr EXCEPT !.isInitialized = FALSE, !.currentConnectionInfo = "null"]

\* the transport closes for good (reconnect attempts used up, or the server
\* closed the connection)
SignalR_onclose ==
    /\ \E i \in 1..MaxConnections :
          /\ hub[i].state \in {"Connected", "Reconnecting"}
          /\ hub' = [hub EXCEPT ![i].state = "Disconnected"]
    /\ signalr' = onclose(signalr)
    /\ lastSignalR' = SignalRStep("onclose", "done", 0)
    /\ UNCHANGED << tokenVars, negotiateVars, messageVars, hubConfig, useSignalR, negotiations, inits, stops >>

\* stopSignalR's finally block
stopSignalR_finally(sr) == SignalRIdle

\* stopSignalR() up to its await (or its return): stop() on a disconnected
\* connection resolves at once
SignalR_stopSignalR ==
    /\ IF signalr.connection = 0
       THEN UNCHANGED << signalr, hub, stops >>
       ELSE IF hub[signalr.connection].state = "Disconnected"
       THEN /\ signalr' = stopSignalR_finally(signalr)
            /\ UNCHANGED << hub, stops >>
       ELSE /\ CallsInFlight < MaxSignalRCalls
            /\ hub' = [hub EXCEPT ![signalr.connection].state = "Disconnecting"]
            /\ stops' = Add(stops, [conn |-> signalr.connection])
            /\ UNCHANGED signalr
    /\ lastSignalR' =
          IF signalr.connection # 0
             /\ hub[signalr.connection].state # "Disconnected"
          THEN SignalRStep("stopSignalR", "awaiting", 0)
          ELSE SignalRStep("stopSignalR", "returned", 0)
    /\ inits' = StopCalled(inits)
    /\ UNCHANGED << tokenVars, negotiateVars, messageVars, hubConfig, useSignalR, negotiations >>

\* connection.stop() settles for every stopSignalR() awaiting it: resolved,
\* the connection is Disconnected and its onclose callback has run; rejected,
\* the error is logged; either way the finally block runs
SignalR_stopSettles ==
    /\ \E t \in BagToSet(stops) : \E ok \in BOOLEAN :
          /\ hub' = [hub EXCEPT ![t.conn].state =
                                    IF ok THEN "Disconnected" ELSE @]
          /\ signalr' = stopSignalR_finally(IF ok THEN onclose(signalr) ELSE signalr)
          /\ stops' = [x \in { y \in BagToSet(stops) : y.conn # t.conn }
                          |-> stops[x]]
    /\ lastSignalR' = SignalRStep("stopSignalR", "returned", 0)
    /\ UNCHANGED << tokenVars, negotiateVars, messageVars, hubConfig, useSignalR, negotiations, inits >>

\* offMessage(methodName) without a handler: connection.off(methodName)
\* removes every handler of that name from the module's connection
offMessage(sr, h, methodName) ==
    IF sr.connection = 0 THEN h
    ELSE [h EXCEPT ![sr.connection].handlers = @ \ {methodName}]

\* useSignalR's connect effect runs (Office is ready): connectSignalR skips
\* when the service is initialized, else calls initializeSignalR with a
\* config whose handlers are this instance's messageHandler
UseSignalR_mount ==
    /\ hubConfig = HookConfig
    /\ ~useSignalR.isMounted
    /\ useSignalR.instance <= MaxMounts
    /\ useSignalR' = [useSignalR EXCEPT !.isMounted = TRUE]
    /\ IF isSignalRInitialized(signalr)
       THEN /\ lastSignalR' = SignalRStep("useSignalR", "skipped", 0)
            /\ UNCHANGED << signalr, hub, inits, negotiations >>
       ELSE SignalR_initializeSignalRFrom(useSignalR.instance)
    /\ UNCHANGED << tokenVars, negotiateVars, messageVars, hubConfig, stops >>

\* the effect's cleanup: isMounted = false and offMessage for both names
UseSignalR_unmount ==
    /\ useSignalR.isMounted
    /\ useSignalR' = [instance |-> useSignalR.instance + 1, isMounted |-> FALSE]
    /\ hub' = offMessage(signalr, offMessage(signalr, hub, "NotificationReceived"),
                         "BroadcastMessage")
    /\ lastSignalR' = SignalRStep("useSignalR", "unmounted", 0)
    /\ UNCHANGED << tokenVars, negotiateVars, messageVars, hubConfig, signalr, inits, stops,
                    negotiations >>

\* ------------------------------------------------ useSignalR.messageHandler
\* a JavaScript value: t is what typeof gives ("undefined" for a field that
\* is not set, "null" for null), v its content
Value(t, v) == [t |-> t, v |-> v]
Unset == Value("undefined", "")
Null == Value("null", "")
String(v) == Value("string", v)
Number(v) == Value("number", v)
Boolean(v) == Value("boolean", v)

\* an object argument with the fields messageHandler reads
Object(type, Type, payload, Payload, data, Data, timestamp, id) ==
    [t |-> "object", type |-> type, Type |-> Type, payload |-> payload,
     Payload |-> Payload, data |-> data, Data |-> Data,
     timestamp |-> timestamp, Timestamp |-> Unset, id |-> id, Id |-> Unset]

\* args.slice(1)
Array(items) == [t |-> "array", items |-> items]

\* ToBoolean: undefined, null, 0, '' and false are falsy
Falsy(x) ==
    \/ x.t \in {"undefined", "null"}
    \/ x.t = "number" /\ x.v = "0"
    \/ x.t = "string" /\ x.v = ""
    \/ x.t = "boolean" /\ x.v = "false"

\* a || b
Or(a, b) == IF Falsy(a) THEN b ELSE a

\* new Date(x), new Date(), and the generated id
Date(x) == [t |-> "date", v |-> x.v]
DateNow == [t |-> "date", v |-> "now"]
GeneratedId == String("uuid")

SignalRMessage(type, payload, timestamp, id) ==
    [type |-> type, payload |-> payload, timestamp |-> timestamp, id |-> id]
NoMessage == SignalRMessage(Unset, Unset, Unset, Unset)

\* the normalizedMessage the handler builds from its arguments
messageHandler(args) ==
    IF Len(args) = 0
    THEN SignalRMessage(String("notification"), Null, DateNow, GeneratedId)
    ELSE IF Len(args) = 1 /\ args[1].t = "object"
    THEN LET obj == args[1]
         IN SignalRMessage(
                Or(Or(obj.type, obj.Type), String("notification")),
                Or(Or(Or(Or(obj.payload, obj.Payload), obj.data), obj.Data), obj),
                IF ~Falsy(Or(obj.timestamp, obj.Timestamp))
                THEN Date(Or(obj.timestamp, obj.Timestamp)) ELSE DateNow,
                Or(Or(obj.id, obj.Id), GeneratedId))
    ELSE IF Len(args) = 1
    THEN SignalRMessage(String("notification"), args[1], DateNow, GeneratedId)
    ELSE SignalRMessage(
             IF args[1].t = "string" THEN args[1] ELSE String("notification"),
             IF Len(args) = 2 THEN args[2] ELSE Array(SubSeq(args, 2, Len(args))),
             DateNow, GeneratedId)

\* the arguments a server sends: primitives, objects whose fields are unset,
\* falsy or truthy, and lists of up to MaxArgs of them
Primitives == {Null, String("hello"), String(""), Number("0"), Number("7"),
               Boolean("false")}
TypeValues(name) == {Unset, String(""), String(name)}
Objects ==
    { Object(type, Type, payload, Payload, data, Data, timestamp, id) :
        type \in TypeValues("alert"), Type \in TypeValues("Alert"),
        payload \in {Unset, Number("0"), String("payload")},
        Payload \in {Unset, String(""), String("Payload")},
        data \in {Unset, Boolean("false"), String("data")},
        Data \in {Unset, Number("0"), String("Data")},
        timestamp \in {Unset, String("2026-01-01T00:00:00Z")},
        id \in {Unset, String("msg-1")} }
FirstArgs == {String("alert"), Number("7")}
RestArgs == {Null, Number("0"), String("hello")}
RECURSIVE ArgsOfLen(_)
ArgsOfLen(n) ==
    IF n = 0 THEN {<< >>}
    ELSE IF n = 1 THEN { <<x>> : x \in Primitives \cup Objects }
    ELSE IF n = 2 THEN { <<a, b>> : a \in FirstArgs, b \in RestArgs }
    ELSE { Append(r, b) : r \in ArgsOfLen(n - 1), b \in RestArgs }
ArgLists == UNION { ArgsOfLen(n) : n \in 0..MaxArgs }

\* the transport invokes a bound handler with the received arguments; the
\* handler returns at once when its useSignalR instance is no longer mounted
MessageHandler_invoke ==
    /\ \E i \in 1..MaxConnections :
          /\ hub[i].state = "Connected"
          /\ hub[i].handlers # {}
          /\ IF hub[i].owner = useSignalR.instance /\ useSignalR.isMounted
             THEN /\ normalizedMessage' = messageHandler(received)
                  /\ lastSignalR' = SignalRStep("messageHandler", "delivered", i)
             ELSE /\ UNCHANGED normalizedMessage
                  /\ lastSignalR' = SignalRStep("messageHandler", "dropped", i)
    /\ UNCHANGED << tokenVars, negotiateVars, hubConfig, signalr, hub, inits, stops,
                    negotiations, useSignalR, received >>

\* the hook, its transport and the messages it receives
NextMessage ==
    \/ UseSignalR_mount
    \/ UseSignalR_unmount
    \/ SignalR_startResolves
    \/ MessageHandler_invoke

\* the hook and the transport, with the application stopping the service
NextHook ==
    \/ UseSignalR_mount
    \/ UseSignalR_unmount
    \/ SignalR_startResolves
    \/ SignalR_startRejects
    \/ SignalR_onreconnecting
    \/ SignalR_onreconnected
    \/ SignalR_onclose
    \/ SignalR_stopSignalR
    \/ SignalR_stopSettles

NextSignalR ==
    \/ SignalR_initializeSignalRCall
    \/ SignalR_tokenSettles
    \/ SignalR_negotiateResolves
    \/ SignalR_negotiateRejects
    \/ SignalR_startResolves
    \/ SignalR_startRejects
    \/ SignalR_onreconnecting
    \/ SignalR_onreconnected
    \/ SignalR_onclose
    \/ SignalR_stopSignalR
    \/ SignalR_stopSettles

\* the timer callbacks
TimerCallbacks ==
    \/ TM_refreshTimerFires
    \/ TM_retryTimerFires
    \/ AZ_refreshTimerFires
    \/ AZ_retryTimerFires

\* Date.now() advances by a minute; a timer that is due runs before that
Tick ==
    /\ now < MaxTicks * TickMs
    /\ ~ENABLED TimerCallbacks
    /\ now' = now + TickMs
    /\ lastCall' = NoCall
    /\ UNCHANGED << realtimeVars, identitySource, isInitialized, ssoState, tokenManager,
                    azureTokenManager, pending, retryTimers, timerFailed,
                    undisturbed >>

\* the token side before anything ran
InitTokens ==
    /\ now = 0
    /\ isInitialized = FALSE
    /\ ssoState = [isAuthenticated |-> FALSE, token |-> NoToken]
    /\ tokenManager = [refreshPromise |-> NoPromise, refreshTimer |-> NoTimer]
    /\ azureTokenManager = [cachedToken |-> NoAzureToken, refreshPromise |-> NoPromise,
                            refreshTimer |-> NoTimer, currentConfig |-> "null"]
    /\ pending = EmptyBag
    /\ retryTimers = EmptyBag
    /\ lastCall = NoCall
    /\ timerFailed = FALSE
    /\ undisturbed = TRUE

\* signalrService before anything ran, for callers passing config, and a
\* server about to invoke a hub method with args
InitSignalRReceiving(config, args) ==
    /\ hubConfig = config
    /\ received = args
    /\ normalizedMessage = NoMessage
    /\ signalr = SignalRIdle
    /\ hub = [i \in 1..MaxConnections |-> NoConnection]
    /\ inits = EmptyBag
    /\ stops = EmptyBag
    /\ negotiations = 0
    /\ useSignalR = [instance |-> 1, isMounted |-> FALSE]
    /\ lastSignalR = NoSignalRStep

InitSignalRWith(config) == InitSignalRReceiving(config, << >>)

Init ==
    /\ identitySource \in {"delegated", "clientCredentials"}
    /\ InitTokens
    /\ negotiateCall = NegotiateIdle
    /\ InitSignalRWith(HookConfig)

Next ==
    \/ Tick
    \/ \E config \in SSOConfigs : UseSSO_initializeAuthentication(config)
    \/ \E config \in SSOConfigs : UseSSO_refreshAuthentication(config)
    \/ UseSSO_signOut
    \/ UseSSO_mount
    \/ UseSSO_unmount
    \/ SSO_initializeSSOResolves
    \/ SSO_initializeSSORejects
    \/ SSO_refreshTokenResolves
    \/ SSO_refreshTokenRejects
    \/ \E config \in SSOConfigs : TM_getTokenCall(config)
    \/ \E config \in SSOConfigs : TM_forceRefresh(config)
    \/ TM_startAutoRefresh
    \/ TM_stopAutoRefresh
    \/ TM_clear
    \/ TM_refreshTimerFires
    \/ TM_retryTimerFires
    \/ \E config \in AzureConfigs : AZ_getTokenCall(config)
    \/ \E config \in AzureConfigs : AZ_forceRefresh(config)
    \/ \E config \in AzureConfigs : AZ_startAutoRefresh(config)
    \/ AZ_stopAutoRefresh
    \/ AZ_clear
    \/ AZ_refreshTimerFires
    \/ AZ_retryTimerFires
    \/ AZ_acquireTokenResolves
    \/ AZ_acquireTokenRejects

Spec == Init /\ [][Next]_vars

\* ssoService and the TokenManager's timer under a host that returns every
\* kind of token, decodable or not
SSO_initializeSSOResolvesAny == SSO_initializeSSOResolvesFrom(AnyHostTokens)
SSO_refreshTokenResolvesAny == SSO_refreshTokenResolvesFrom(AnyHostTokens)

InitSSO ==
    /\ identitySource = "delegated"
    /\ InitTokens
    /\ negotiateCall = NegotiateIdle
    /\ InitSignalRWith(HookConfig)

NextSSO ==
    \/ Tick
    \/ \E config \in SSOConfigs : UseSSO_initializeAuthentication(config)
    \/ \E config \in SSOConfigs : UseSSO_refreshAuthentication(config)
    \/ SSO_initializeSSOResolvesAny
    \/ SSO_initializeSSORejects
    \/ SSO_refreshTokenResolvesAny
    \/ SSO_refreshTokenRejects
    \/ \E config \in SSOConfigs : TM_getTokenCall(config)
    \/ TM_refreshTimerFires
    \/ TM_retryTimerFires

SpecSSO == InitSSO /\ [][NextSSO]_vars

\* negotiate() on its own
InitNegotiate ==
    /\ identitySource = "delegated"
    /\ InitTokens
    /\ negotiateCall = NegotiateIdle
    /\ InitSignalRWith(HookConfig)

SpecNegotiate == InitNegotiate /\ [][NextNegotiate]_vars

\* negotiate() runs on: a fetch settles, a sleep ends
FairSpecNegotiate == SpecNegotiate /\ WF_vars(NextNegotiate)

\* signalrService on its own, for every config a caller may pass
InitSignalR ==
    /\ identitySource = "delegated"
    /\ InitTokens
    /\ negotiateCall = NegotiateIdle
    /\ \E config \in SignalRConfigs : InitSignalRWith(config)

SpecSignalR == InitSignalR /\ [][NextSignalR]_vars

\* signalrService driven by the useSignalR hook
InitHook ==
    /\ identitySource = "delegated"
    /\ InitTokens
    /\ negotiateCall = NegotiateIdle
    /\ InitSignalRWith(HookConfig)

SpecHook == InitHook /\ [][NextHook]_vars

\* the hook receiving a hub method invocation
InitMessage ==
    /\ identitySource = "delegated"
    /\ InitTokens
    /\ negotiateCall = NegotiateIdle
    /\ \E args \in ArgLists : InitSignalRReceiving(HookConfig, args)

SpecMessage == InitMessage /\ [][NextMessage]_vars

\* ------------------------------------------------------------ properties
\* the cache of the manager the behaviour follows
HasCachedToken ==
    IF identitySource = "delegated" THEN ssoState.token # NoToken
    ELSE azureTokenManager.cachedToken # NoAzureToken
CachedExpiresAt ==
    IF identitySource = "delegated" THEN ssoState.token.expiresAt
    ELSE azureTokenManager.cachedToken.expiresAt
\* a cached token with strictly more than five minutes left
FreshEnough == HasCachedToken /\ CachedExpiresAt - now > REFRESH_THRESHOLD_MS
RefreshPromise ==
    IF identitySource = "delegated" THEN tokenManager.refreshPromise
    ELSE azureTokenManager.refreshPromise
\* the call can reach the identity source: the SSO user is authenticated
SignedIn == identitySource = "delegated" => isSSOAuthenticated(ssoState)
\* the step is a getToken() call (from outside or from the refresh timer)
\* whose config passed validation
GetTokenStep == lastCall'.op = "getToken" /\ lastCall'.kind # "configError"
Acquiring == BagCardinality(ManagerCalls)

\* C1 (as amended): a getToken() call issued while no valid token is cached,
\* no forceRefresh()/clear() has intervened and, for the SSO manager, the user
\* is authenticated, either starts the only acquisition in flight or awaits
\* the promise of the one in flight (and so settles with its outcome): one
\* acquisition is outstanding afterwards, and it is the shared one.
C1_SingleAcquisition ==
    [][ (GetTokenStep /\ ~FreshEnough /\ undisturbed /\ SignedIn)
        => /\ lastCall'.kind \in {"started", "joined"}
           /\ Acquiring' = 1
           /\ \E c \in BagToSet(ManagerCalls') : c.shared
           /\ Acquiring = 1 => lastCall'.kind = "joined" ]_vars

\* C1 witness: a second getToken() has joined the acquisition in flight
C1_Witness ==
    /\ lastCall.op = "getToken"
    /\ lastCall.kind = "joined"
    /\ undisturbed
    /\ Acquiring = 1
    /\ ~FreshEnough

\* C1 as stated: without the condition on authentication, every getToken()
\* issued while no valid token is cached starts or joins the one acquisition
C1_Original ==
    [][ (GetTokenStep /\ ~FreshEnough /\ undisturbed)
        => /\ lastCall'.kind \in {"started", "joined"}
           /\ Acquiring' = 1 ]_vars

\* C2 (as amended): when the SSO user is authenticated (and for the Azure
\* manager always), getToken() returns the cached token without touching the
\* calls in flight exactly when a token is cached with strictly more than
\* five minutes left, and otherwise starts or joins an acquisition; when the
\* SSO user is not authenticated it rejects without any acquisition.
C2_ThresholdRule ==
    [][ GetTokenStep
        => /\ SignedIn
              => /\ lastCall'.kind = "cached" <=> FreshEnough
                 /\ lastCall'.kind = "cached" => pending' = pending
                 /\ lastCall'.kind # "cached"
                       => lastCall'.kind \in {"started", "joined"}
           /\ ~SignedIn
              => /\ lastCall'.kind = "notAuthenticated"
                 /\ pending' = pending ]_vars

\* C2 witness: getToken() has started or joined an acquisition although a
\* token with exactly five minutes left is cached
C2_Witness ==
    /\ lastCall.op = "getToken"
    /\ lastCall.kind \in {"started", "joined"}
    /\ HasCachedToken
    /\ CachedExpiresAt - now = REFRESH_THRESHOLD_MS

\* C2 as stated: for both managers, whatever the authentication state
C2_Original ==
    [][ GetTokenStep
        => /\ lastCall'.kind = "cached" <=> FreshEnough
           /\ lastCall'.kind # "cached"
                 => lastCall'.kind \in {"started", "joined"} ]_vars

\* C3: when an acquisition fails the refresh slot is idle again, and a
\* getToken() that follows while nothing is in flight and no valid token is
\* cached starts a new acquisition
C3_RetryAfterFailure ==
    [][ /\ (lastCall'.op = "settled" /\ lastCall'.kind = "failed")
              => RefreshPromise' = NoPromise
        /\ (/\ lastCall.op = "settled" /\ lastCall.kind = "failed"
            /\ GetTokenStep /\ ~FreshEnough /\ Acquiring = 0)
              => lastCall'.kind = "started" ]_vars

\* C4: forceRefresh(config) with a valid config starts a new acquisition,
\* whether or not the cached token is still valid
C4_ForceRefreshAcquires ==
    [][ (/\ lastCall'.op = "forceRefresh"
         /\ lastCall'.kind # "configError"
         /\ SignedIn)
        => lastCall'.kind = "started" ]_vars

\* C5: at most one acquisition call of a manager is outstanding at a time
C5_AtMostOneAcquisition == Acquiring <= 1

\* C6: a getToken() from the timer arriving while an acquisition started by
\* a caller is in flight, or from a caller while one started by the timer is
\* in flight, awaits it and starts no second acquisition
C6_TimerAndCallerShare ==
    [][ (/\ GetTokenStep /\ ~FreshEnough /\ SignedIn
         /\ \E c \in BagToSet(ManagerCalls) : c.origin # lastCall'.origin)
        => /\ lastCall'.kind = "joined"
           /\ Acquiring' = Acquiring ]_vars

\* C7: when the refresh timer fires for an authenticated user the cached
\* token is invalid by the threshold rule and an acquisition is performed
C7_TimerRenews ==
    [][ (/\ GetTokenStep /\ lastCall'.origin = "timer" /\ SignedIn)
        => /\ ~FreshEnough
           /\ lastCall'.kind \in {"started", "joined"} ]_vars

\* C8: once a timer-initiated refresh has failed and none has succeeded
\* since, a refresh timer that fires while no valid token is cached makes a
\* new acquisition attempt
C8_RetryAfterCooldown ==
    [][ (/\ GetTokenStep /\ lastCall'.origin = "timer"
         /\ timerFailed /\ ~FreshEnough)
        => lastCall'.kind \in {"started", "joined"} ]_vars

\* C9: every host token call started by the refresh timer asks for neither
\* the sign-in prompt nor the consent prompt
C9_SilentTimerRefresh ==
    \A c \in BagToSet(pending) :
        (c.fn \in {"refreshToken", "initializeSSO"} /\ c.origin = "timer")
            => ~c.allowSignInPrompt /\ ~c.allowConsentPrompt

\* C9 witness: a timer-started host call is in flight next to a call that
\* was made with the prompts allowed
C9_Witness ==
    /\ \E c \in BagToSet(pending) : c.fn = "refreshToken" /\ c.origin = "timer"
    /\ \E d \in BagToSet(pending) : d.allowSignInPrompt /\ d.allowConsentPrompt

\* C10: after useSSO.signOut() the service holds no token and reports the
\* user as not authenticated
C10_SignOutClears ==
    lastCall.op = "signOut"
        => /\ ~isSSOAuthenticated(ssoState)
           /\ getCurrentToken(ssoState) = NoToken
\* C11: when the hook is unmounted and mounted again while the user is
\* authenticated, a refresh timer is pending after the remount, due five
\* minutes before the token expires
C11_RemountKeepsTimer ==
    [][ (/\ lastCall.op = "unmount" /\ lastCall'.op = "mount"
         /\ isSSOAuthenticated(ssoState))
        => /\ tokenManager'.refreshTimer.state = "armed"
           /\ tokenManager'.refreshTimer.due
                 = Max(now, ssoState.token.expiresAt - REFRESH_THRESHOLD_MS) ]_vars
\* negotiate() has ended
NegotiateDone == negotiateCall.phase \in {"resolved", "rejected"}
\* negotiate() got past its argument checks
NegotiateRan ==
    /\ negotiateCall.phase # "idle"
    /\ negotiateCall.outcome.type \notin {"urlRequired", "tokenRequired"}
AuthTemplate == "Authentication failed during SignalR negotiation"

\* C12: once the endpoint has answered an attempt with 401 or 403,
\* negotiate() has rejected with the authentication error of that attempt and
\* the fetches made are exactly the attempts up to and including that one,
\* whatever maxRetries is
C12_AuthErrorNotRetried ==
    negotiateCall.lastResponse.status \in {401, 403}
        => /\ negotiateCall.phase = "rejected"
           /\ negotiateCall.outcome.cause.template = AuthTemplate
           /\ negotiateCall.outcome.cause.status = negotiateCall.lastResponse.status
           /\ negotiateCall.outcome.cause.attempt = negotiateCall.calls
           /\ negotiateCall.calls = negotiateCall.attempt
           /\ negotiateCall.calls = Len(negotiateCall.startTimes)

\* C12 witness: a 403 answered the second of four allowed attempts
C12_Witness ==
    /\ negotiateCall.lastResponse.status = 403
    /\ negotiateCall.calls = 2
    /\ negotiateCall.maxRetries = 4
    /\ NegotiateDone

\* C13: an attempt that fails with anything but a 401/403 response while
\* fewer than maxRetries attempts have been made is followed by another
\* attempt, whatever text the failure carries
C13_OtherFailuresRetried ==
    [][ (/\ negotiateCall.phase = "fetching"
         /\ negotiateCall'.lastResponse.kind # "ok"
         /\ negotiateCall'.lastResponse.status \notin {401, 403}
         /\ negotiateCall.calls < negotiateCall.maxRetries)
        => negotiateCall'.phase = "sleeping" ]_vars

\* C14: attempt k+1 starts retryDelayMs * 2^(k-1) after attempt k; with
\* maxRetries = 3 and retryDelayMs = 100 the attempts start at 0, 100 and
\* 300 ms; nothing is waited after the final attempt
C14_ExponentialBackoff ==
    LET n == negotiateCall
        t == n.startTimes
    IN /\ \A k \in 1..(Len(t) - 1) :
             t[k + 1] - t[k] = n.retryDelayMs * (2 ^ (k - 1))
       /\ (Len(t) >= 1) => t[1] = 0
       /\ (n.maxRetries = 3 /\ n.retryDelayMs = 100 /\ Len(t) = 3)
             => t = << 0, 100, 300 >>
       /\ (NegotiateDone /\ Len(t) >= 1) => n.waited = t[Len(t)]

\* C14 witness: three attempts at 0, 100 and 300 ms have failed
C14_Witness ==
    /\ negotiateCall.startTimes = << 0, 100, 300 >>
    /\ negotiateCall.outcome.type = "aggregate"
    /\ negotiateCall.waited = 300

C16_ArgumentsChecked ==
    (/\ negotiateCall.phase # "idle"
     /\ \/ negotiateCall.url # "https"
        \/ negotiateCall.bearerToken = "empty")
        => /\ negotiateCall.phase = "rejected"
           /\ negotiateCall.calls = 0
\* what getConnectionState() reports
Reported == getConnectionState(signalr, hub)
\* the sources in the order the claim gives them, highest first
ClaimedSource(config) ==
    IF config.ssoTokenProvider THEN "ssoTokenProvider"
    ELSE IF config.azureTokenProvider THEN "azureTokenProvider"
    ELSE IF config.accessToken THEN "accessToken"
    ELSE "getValidToken"
\* the bearer-token sources a config names
ConfiguredSources(config) ==
    { src \in {"ssoTokenProvider", "azureTokenProvider", "accessToken"} :
          config[src] }
AllowedTransitions ==
    { << "Disconnected", "Connecting" >>, << "Connecting", "Connected" >>,
      << "Connected", "Reconnecting" >>, << "Reconnecting", "Connected" >> }
    \cup { << st, "Disconnected" >> :
              st \in {"Connecting", "Connected", "Reconnecting", "Disconnecting"} }

\* C17: whenever start() has been invoked on a connection that
\* initializeSignalR built, every method name of config.handlers was bound
\* on it at that moment
C17_HandlersBeforeStart ==
    \A i \in 1..MaxConnections :
        hub[i].startInvoked => hubConfig.handlers \subseteq hub[i].boundAtStart

\* C17 witness: the second connection built in a run was started with both
\* handlers bound
C17_Witness ==
    /\ hub[2].startInvoked
    /\ hubConfig.handlers = Methods
    /\ hub[2].boundAtStart = Methods

\* C18: the bearer token of a connection comes from the highest-priority
\* source configured, in the order SSO provider, client-credentials
\* provider, static token, and no other source is consulted
C18_TokenSourcePriority ==
    \A i \in 1..MaxConnections :
        (Cardinality(ConfiguredSources(hubConfig)) >= 2 /\ hub[i].tokenSources # {})
            => hub[i].tokenSources = {ClaimedSource(hubConfig)}

\* C19: the reported state starts as Disconnected and changes only along
\* the listed transitions; isConnected() holds exactly in state Connected
C19_StateTransitions ==
    [][ /\ Reported' # Reported => << Reported, Reported' >> \in AllowedTransitions
        /\ isConnected(signalr', hub') <=> Reported' = "Connected" ]_vars

\* C20: when a stopSignalR() call has returned, the reported state is
\* Disconnected, the service is not initialized, and the stored config and
\* negotiate data are null
C20_StopResets ==
    [][ (lastSignalR'.op = "stopSignalR" /\ lastSignalR'.result = "returned")
        => /\ Reported' = "Disconnected"
           /\ ~isSignalRInitialized(signalr')
           /\ signalr'.currentConfig = "null"
           /\ signalr'.currentConnectionInfo = "null" ]_vars

RefreshTimer(tm, atm) ==
    IF identitySource = "delegated" THEN tm.refreshTimer ELSE atm.refreshTimer
\* a step no caller makes: a timer callback, or the settlement of a call
BackgroundStep ==
    \/ TimerCallbacks
    \/ SSO_refreshTokenResolves
    \/ SSO_refreshTokenRejects
    \/ AZ_acquireTokenResolves
    \/ AZ_acquireTokenRejects

\* C28: in a step that follows stopAutoRefresh() or clear() without a call
\* from outside in between, no timer-initiated acquisition starts and no
\* refresh timer becomes pending
C28_StoppedStaysStopped ==
    [][ (lastCall.op \in {"stopAutoRefresh", "clear"} /\ BackgroundStep)
        => /\ ~(lastCall'.origin = "timer" /\ lastCall'.kind = "started")
           /\ RefreshTimer(tokenManager', azureTokenManager').state # "armed" ]_vars

\* C29: when an acquireToken call that was in flight at a clear() or a
\* forceRefresh() of the AzureTokenManager completes, the cache is not
\* written
C29_OlderAcquisitionIgnored ==
    [][ (identitySource = "clientCredentials" /\ pending' # pending)
        => \A c \in BagToSet(pending) : \A expires_in \in ExpiresIn :
              (c.superseded /\ AZ_acquireTokenResolvesWith(c, expires_in))
              => azureTokenManager'.cachedToken = azureTokenManager.cachedToken ]_vars

\* a transport that has been started and has not closed
Started(c) == c.state \in {"Connecting", "Connected", "Reconnecting"}

\* C21: when a transport fires onclose, isSignalRInitialized() is false, the
\* negotiated session data is null and the reported state is Disconnected;
\* onreconnecting and onreconnected leave the service's data as it was
C21_CloseClearsSession ==
    [][ /\ lastSignalR'.op = "onclose"
           => /\ ~isSignalRInitialized(signalr')
              /\ signalr'.currentConnectionInfo = "null"
              /\ Reported' = "Disconnected"
        /\ lastSignalR'.op \in {"onreconnecting", "onreconnected"}
           => signalr' = signalr ]_vars

\* C25: initializeSignalR() called while isSignalRInitialized() holds returns
\* the existing connection, builds and starts no transport and begins no
\* negotiation
C25_InitializeIsIdempotent ==
    [][ (/\ lastSignalR'.op = "initializeSignalR"
         /\ lastSignalR'.result \in {"existing", "awaiting"}
         /\ isSignalRInitialized(signalr))
        => /\ lastSignalR'.result = "existing"
           /\ lastSignalR'.conn # 0
           /\ lastSignalR'.conn = signalr.connection
           /\ hub' = hub
           /\ inits' = inits ]_vars

\* C30: initializeSignalR() calls in progress at the same time await the
\* start of one and the same transport, and every started transport is the
\* one the service refers to
C30_OverlappingCallsShare ==
    /\ \A c, d \in BagToSet(inits) :
          (c.stage = "start" /\ d.stage = "start") => c.conn = d.conn
    /\ \A i \in 1..MaxConnections :
          Started(hub[i]) => signalr.connection = i

\* C27: an initializeSignalR() call during which stopSignalR() was called
\* does not leave the service initialized or its transport started once both
\* have settled, and isSignalRInitialized() never holds while the connection
\* object is null
C27_StopDuringInitialize ==
    [][ /\ \A c \in BagToSet(inits) : \A providerResolves \in BOOLEAN :
              ( /\ c.stopCalled
                /\ SignalR_startResolvesWith(c, providerResolves)
                /\ stops' = EmptyBag )
              => /\ ~isSignalRInitialized(signalr')
                 /\ ~Started(hub'[c.conn])
        /\ isSignalRInitialized(signalr') => signalr'.connection # 0 ]_vars

Delivers(c, methodName) ==
    /\ methodName \in c.handlers
    /\ c.owner = useSignalR.instance
    /\ useSignalR.isMounted

\* C26: while a useSignalR instance is mounted and the connection is
\* initialized and Connected, both configured method names have a handler
\* bound on the transport that delivers to the mounted instance
C26_HandlersFollowMount ==
    ( /\ useSignalR.isMounted
      /\ isSignalRInitialized(signalr)
      /\ getConnectionState(signalr, hub) = "Connected" )
    => \A methodName \in Methods : Delivers(hub[signalr.connection], methodName)

\* the first of the fields that is set, else the default
FirstSet(fields, default) ==
    LET S == { k \in 1..Len(fields) : fields[k].t # "undefined" }
    IN IF S = {} THEN default
       ELSE fields[CHOOSE k \in S : \A l \in S : k <= l]

\* C23: every delivered invocation yields one {type, payload, timestamp, id}
\* record: no args give 'notification' and null; a single object gives the
\* first set field of type/Type and of payload/Payload/data/Data whatever
\* its value, defaulting only unset fields; a single non-object is the
\* payload; with several args a string first arg is the type and the rest
\* the payload (one unwrapped, several as a sequence)
C23_MessageNormalized ==
    [][ (lastSignalR'.op = "messageHandler" /\ lastSignalR'.result = "delivered")
        => LET args == received
               m == normalizedMessage'
           IN /\ DOMAIN m = {"type", "payload", "timestamp", "id"}
              /\ Len(args) = 0
                    => m.type = String("notification") /\ m.payload = Null
              /\ (Len(args) = 1 /\ args[1].t = "object")
                    => /\ m.type = FirstSet(<<args[1].type, args[1].Type>>,
                                            String("notification"))
                       /\ m.payload = FirstSet(<<args[1].payload, args[1].Payload,
                                                 args[1].data, args[1].Data>>,
                                               args[1])
              /\ (Len(args) = 1 /\ args[1].t # "object")
                    => m.type = String("notification") /\ m.payload = args[1]
              /\ (Len(args) > 1 /\ args[1].t = "string")
                    => /\ m.type = args[1]
                       /\ m.payload = IF Len(args) = 2 THEN args[2]
                                      ELSE Array(SubSeq(args, 2, Len(args))) ]_vars

====
